---- MODULE Spec2Model ----
(***************************************************************************)
(* Guest customization of a vSphere VM: Session.customize, the templating *)
(* of the metadata and the transport selector it drives, reconciled pass   *)
(* after pass against a hypervisor that accepts Reconfigure and Customize  *)
(* calls and a guest that acknowledges a pending customization.            *)
(*                                                                         *)
(* Strings are sequences of tokens, so that "" is <<>>.  Optional values   *)
(* (Go pointers, interfaces, errors) are Nil == <<>> or <<v>>.  Map keys   *)
(* are sequences of their dot-separated segments.                          *)
(***************************************************************************)
EXTENDS Naturals, Sequences, FiniteSets, TLC

VARIABLES vm, updateArgs, config, hvInFlight, pass, changes, fssEnabled

vars == <<vm, updateArgs, config, hvInFlight, pass, changes, fssEnabled>>

Nil == <<>>

Some(v) == <<v>>

EmptyMap == [k \in {} |-> <<>>]

\* Go map lookup: the zero value "" for a missing key.
Lookup(m, k) == IF k \in DOMAIN m THEN m[k] ELSE <<>>

----------------------------------------------------------------------------
\* constants of the program

GOSCPendingExtraConfigKey == <<"tools", "deployPkg", "fileName">>

ExtraConfigGuestInfoPrefix == <<"guestinfo">>

CloudInitGuestInfoMetadata == <<"guestinfo", "metadata">>

CloudInitGuestInfoMetadataEncoding == <<"guestinfo", "metadata", "encoding">>

CloudInitGuestInfoUserdata == <<"guestinfo", "userdata">>

CloudInitGuestInfoUserdataEncoding == <<"guestinfo", "userdata", "encoding">>

CloudInitTypeValueCloudInitPrep == <<"cloud-init-prep">>

CloudInitTypeValueGuestInfo == <<"guestinfo">>

VSphereCustomizationBypassDisable == <<"disable">>

CloudInitTransport == "CloudInit"

OvfEnvTransport == "OvfEnv"

ExtraConfigTransport == "ExtraConfig"

GzipBase64 == <<"gzip+base64">>

UserDataKey == <<"user-data">>

ValueKey == <<"value">>

\* the tokens of a metadata value that templating knows: the escaped braces,
\* a template action that renders the VM's name, one that renders the
\* gateway of the first network device, one that names a field the template
\* data does not have, and the opening of an action that is never closed
EscapedOpenBrace == "\\{"

EscapedCloseBrace == "\\}"

ActionVMName == "{{.V1alpha1.VM.Name}}"

ActionGateway4 == "{{(index .V1alpha1.Net.Devices 0).Gateway4}}"

ActionNoSuchField == "{{.V1alpha1.Nope}}"

ActionUnclosed == "{{"

----------------------------------------------------------------------------
\* errors

Error(msg) == Some([type |-> "error", what |-> msg])

\* task.Error carrying a fault
TaskError(fault) == Some([type |-> "task", what |-> fault])

CustomizationPending == "CustomizationPending"

----------------------------------------------------------------------------
\* the normalization codec

\* EncodeGzipBase64: the gzip+base64 envelope around the text; the gzip
\* writer's error is an input.
EncodeGzipBase64(s, fail) ==
    IF fail THEN [val |-> <<>>, err |-> Error("gzip")]
    ELSE [val |-> <<"Z">> \o s, err |-> Nil]

\* util.TryToDecodeBase64Gzip: the text inside a valid envelope, the input
\* itself when it is no envelope, an error for a damaged gzip stream ("X").
TryToDecodeBase64Gzip(s) ==
    IF s # <<>> /\ Head(s) = "Z" THEN [val |-> Tail(s), err |-> Nil]
    ELSE IF s # <<>> /\ Head(s) = "X" THEN [val |-> <<>>, err |-> Error("gunzip")]
    ELSE [val |-> s, err |-> Nil]

\* MergeExtraConfig: updates override matching keys, all other existing keys
\* are retained unchanged.
MergeExtraConfig(existing, updates) ==
    [k \in DOMAIN existing \cup DOMAIN updates |->
        IF k \in DOMAIN updates THEN updates[k] ELSE existing[k]]

\* GetMergedvAppConfigSpec: the analogous merge over the vApp properties:
\* a property the metadata names takes the metadata's value.
GetMergedvAppConfigSpec(data, props) ==
    Some([k \in DOMAIN props |-> IF k \in DOMAIN data THEN data[k] ELSE props[k]])

----------------------------------------------------------------------------
\* specs

ZeroConfigSpec ==
    [ExtraConfig |-> EmptyMap, VAppConfigRemoved |-> Nil, VAppConfig |-> Nil]

\* apiEquality.Semantic.DeepEqual(configSpec, &VirtualMachineConfigSpec{}):
\* a nil and an empty slice are equal.
IsZeroConfigSpec(cs) ==
    /\ DOMAIN cs.ExtraConfig = {}
    /\ cs.VAppConfigRemoved = Nil
    /\ cs.VAppConfig = Nil

\* IsCustomizationPendingExtraConfig with the comparison inverted
IsCustomizationPendingExtraConfigInverted(extraConfig) ==
    IF GOSCPendingExtraConfigKey \in DOMAIN extraConfig
    THEN extraConfig[GOSCPendingExtraConfigKey] = <<>>
    ELSE FALSE

IsCustomizationPendingExtraConfig(extraConfig) ==
    IF GOSCPendingExtraConfigKey \in DOMAIN extraConfig
    THEN extraConfig[GOSCPendingExtraConfigKey] # <<>>
    ELSE FALSE

\* a check that recognizes no error as the CustomizationPending fault
isCustomizationPendingErrorNever(err) == FALSE

isCustomizationPendingError(err) ==
    /\ err # Nil
    /\ err[1].type = "task"
    /\ err[1].what = CustomizationPending

GetLinuxPrepCustSpec(vmName, args) ==
    Some([Identity |-> "LinuxPrep", HostName |-> vmName, HwClockUTC |-> TRUE,
          DnsServerList |-> args.DNSServers, Metadata |-> <<>>, Userdata |-> <<>>])

\* yaml.Marshal of the CloudInitMetadata record
GetCloudInitMetadata(v, netplan, data, fail) ==
    IF fail THEN [val |-> <<>>, err |-> Error("yaml")]
    ELSE [val |-> <<"id">> \o v.UID \o <<"host">> \o v.Name \o <<"net">> \o netplan
                    \o <<"keys">> \o Lookup(data, <<"ssh-public-keys">>),
          err |-> Nil]

GetCloudInitPrepCustSpec(cloudInitMetadata, args) ==
    LET userdata == Lookup(args.VMMetadata.Data, UserDataKey)
        dec == TryToDecodeBase64Gzip(userdata)
    IN  IF userdata # <<>> /\ dec.err # Nil
        THEN [custSpec |-> Nil, err |-> Error("decoding cloud-init prep userdata failed")]
        ELSE [custSpec |-> Some([Identity |-> "CloudinitPrep", HostName |-> <<>>,
                                 HwClockUTC |-> FALSE, DnsServerList |-> <<>>,
                                 Metadata |-> cloudInitMetadata,
                                 Userdata |-> IF userdata # <<>> THEN dec.val ELSE userdata]),
              err |-> Nil]

\* GuestInfoUpdates without the lookup of the legacy 'value' key
GuestInfoUpdatesNoLegacyKey(cloudInitMetadata, args, encFail) ==
    LET encodedMetadata == EncodeGzipBase64(cloudInitMetadata, encFail = "metadata")
        data == Lookup(args.VMMetadata.Data, UserDataKey)
        plainText == TryToDecodeBase64Gzip(data)
        encodedUserdata == EncodeGzipBase64(plainText.val, encFail = "userdata")
        meta == [k \in {CloudInitGuestInfoMetadata, CloudInitGuestInfoMetadataEncoding} |->
                    IF k = CloudInitGuestInfoMetadata THEN encodedMetadata.val ELSE GzipBase64]
        user == [k \in {CloudInitGuestInfoUserdata, CloudInitGuestInfoUserdataEncoding} |->
                    IF k = CloudInitGuestInfoUserdata THEN encodedUserdata.val ELSE GzipBase64]
    IN  IF encodedMetadata.err # Nil
        THEN [val |-> EmptyMap, err |-> Error("encoding cloud-init metadata failed")]
        ELSE IF data = <<>> THEN [val |-> meta, err |-> Nil]
        ELSE IF plainText.err # Nil
        THEN [val |-> EmptyMap, err |-> Error("decoding cloud-init userdata failed")]
        ELSE IF encodedUserdata.err # Nil
        THEN [val |-> EmptyMap, err |-> Error("encoding cloud-init userdata failed")]
        ELSE [val |-> MergeExtraConfig(meta, user), err |-> Nil]

\* GuestInfoUpdates encoding the userdata as it finds it, with no
\* normalization to plain text
GuestInfoUpdatesNoDecode(cloudInitMetadata, args, encFail) ==
    LET encodedMetadata == EncodeGzipBase64(cloudInitMetadata, encFail = "metadata")
        userdata == Lookup(args.VMMetadata.Data, UserDataKey)
        value == Lookup(args.VMMetadata.Data, ValueKey)
        data == IF userdata # <<>> THEN userdata
                ELSE IF value # <<>> THEN value
                ELSE <<>>
        encodedUserdata == EncodeGzipBase64(data, encFail = "userdata")
        meta == [k \in {CloudInitGuestInfoMetadata, CloudInitGuestInfoMetadataEncoding} |->
                    IF k = CloudInitGuestInfoMetadata THEN encodedMetadata.val ELSE GzipBase64]
        user == [k \in {CloudInitGuestInfoUserdata, CloudInitGuestInfoUserdataEncoding} |->
                    IF k = CloudInitGuestInfoUserdata THEN encodedUserdata.val ELSE GzipBase64]
    IN  IF encodedMetadata.err # Nil
        THEN [val |-> EmptyMap, err |-> Error("encoding cloud-init metadata failed")]
        ELSE IF data = <<>> THEN [val |-> meta, err |-> Nil]
        ELSE IF encodedUserdata.err # Nil
        THEN [val |-> EmptyMap, err |-> Error("encoding cloud-init userdata failed")]
        ELSE [val |-> MergeExtraConfig(meta, user), err |-> Nil]

\* The local extraConfig map of GetCloudInitGuestInfoCustSpec: the updates it
\* hands to MergeExtraConfig.  encFail names the encoding that fails, if any.
GuestInfoUpdates(cloudInitMetadata, args, encFail) ==
    LET encodedMetadata == EncodeGzipBase64(cloudInitMetadata, encFail = "metadata")
        userdata == Lookup(args.VMMetadata.Data, UserDataKey)
        value == Lookup(args.VMMetadata.Data, ValueKey)
        data == IF userdata # <<>> THEN userdata
                ELSE IF value # <<>> THEN value
                ELSE <<>>
        plainText == TryToDecodeBase64Gzip(data)
        encodedUserdata == EncodeGzipBase64(plainText.val, encFail = "userdata")
        meta == [k \in {CloudInitGuestInfoMetadata, CloudInitGuestInfoMetadataEncoding} |->
                    IF k = CloudInitGuestInfoMetadata THEN encodedMetadata.val ELSE GzipBase64]
        user == [k \in {CloudInitGuestInfoUserdata, CloudInitGuestInfoUserdataEncoding} |->
                    IF k = CloudInitGuestInfoUserdata THEN encodedUserdata.val ELSE GzipBase64]
    IN  IF encodedMetadata.err # Nil
        THEN [val |-> EmptyMap, err |-> Error("encoding cloud-init metadata failed")]
        ELSE IF data = <<>> THEN [val |-> meta, err |-> Nil]
        ELSE IF plainText.err # Nil
        THEN [val |-> EmptyMap, err |-> Error("decoding cloud-init userdata failed")]
        ELSE IF encodedUserdata.err # Nil
        THEN [val |-> EmptyMap, err |-> Error("encoding cloud-init userdata failed")]
        ELSE [val |-> MergeExtraConfig(meta, user), err |-> Nil]

GetCloudInitGuestInfoCustSpec(cloudInitMetadata, cfg, args, encFail) ==
    LET extraConfig == GuestInfoUpdates(cloudInitMetadata, args, encFail)
    IN  IF extraConfig.err # Nil
        THEN [configSpec |-> Nil, err |-> extraConfig.err]
        ELSE [configSpec |-> Some([ExtraConfig |-> MergeExtraConfig(cfg.ExtraConfig, extraConfig.val),
                                   VAppConfigRemoved |-> Some(TRUE),
                                   VAppConfig |-> Nil]),
              err |-> Nil]

\* a prefix test that every key passes
HasGuestInfoPrefixAnyKey(k) == TRUE

\* strings.HasPrefix(k, "guestinfo."): the first segment, then a dot
HasGuestInfoPrefix(k) ==
    Len(k) >= 2 /\ SubSeq(k, 1, 1) = ExtraConfigGuestInfoPrefix

\* GetExtraConfigCustSpec without the return of nil for no prefixed key
GetExtraConfigCustSpecNeverNil(cfg, args) ==
    LET data == args.VMMetadata.Data
        extraConfig == [k \in {x \in DOMAIN data : HasGuestInfoPrefix(x)} |-> data[k]]
    IN  Some([ExtraConfig |-> MergeExtraConfig(cfg.ExtraConfig, extraConfig),
              VAppConfigRemoved |-> Nil,
              VAppConfig |-> Nil])

GetExtraConfigCustSpec(cfg, args) ==
    LET data == args.VMMetadata.Data
        extraConfig == [k \in {x \in DOMAIN data : HasGuestInfoPrefix(x)} |-> data[k]]
    IN  IF DOMAIN extraConfig = {} THEN Nil
        ELSE Some([ExtraConfig |-> MergeExtraConfig(cfg.ExtraConfig, extraConfig),
                   VAppConfigRemoved |-> Nil,
                   VAppConfig |-> Nil])

GetOvfEnvCustSpec(cfg, args) ==
    IF cfg.VAppConfig = Nil THEN Nil
    ELSE Some([ExtraConfig |-> EmptyMap,
               VAppConfigRemoved |-> Nil,
               VAppConfig |-> GetMergedvAppConfigSpec(args.VMMetadata.Data, cfg.VAppConfig[1])])

\* NetIfList.GetNetplan(ethCards, DNSServers)
GetNetplan(args, ethCards) == ethCards \o <<"dns">> \o args.DNSServers

\* env: the outcomes of the calls this pass makes outside the session:
\*   netErr   the error of resVM.GetNetworkDevices
\*   ethCards its result
\*   fail     "yaml", "metadata", "userdata": the marshalling or encoding that fails
customizeCloudInit(v, cfg, args, env) ==
    LET netplan == GetNetplan(args, env.ethCards)
        cloudInitMetadata == GetCloudInitMetadata(v, netplan, args.VMMetadata.Data, env.fail = "yaml")
        prep == GetCloudInitPrepCustSpec(cloudInitMetadata.val, args)
        guestInfo == GetCloudInitGuestInfoCustSpec(cloudInitMetadata.val, cfg, args, env.fail)
    IN  IF env.netErr # Nil
        THEN [configSpec |-> Nil, custSpec |-> Nil, err |-> env.netErr]
        ELSE IF cloudInitMetadata.err # Nil
        THEN [configSpec |-> Nil, custSpec |-> Nil, err |-> cloudInitMetadata.err]
        ELSE IF v.Annotations.CloudInitType = CloudInitTypeValueCloudInitPrep
        THEN IF prep.err # Nil
             THEN [configSpec |-> Nil, custSpec |-> Nil, err |-> prep.err]
             ELSE [configSpec |-> Nil, custSpec |-> prep.custSpec, err |-> Nil]
        ELSE IF guestInfo.err # Nil
             THEN [configSpec |-> Nil, custSpec |-> Nil, err |-> guestInfo.err]
             ELSE [configSpec |-> guestInfo.configSpec, custSpec |-> Nil, err |-> Nil]

\* SelectTransport with the CloudInit case also assigning the Linux-prep
\* custSpec, as the other cases do
SelectTransportAlwaysLinuxPrep(v, cfg, args, env) ==
    LET transport == args.VMMetadata.Transport
        cloudInit == customizeCloudInit(v, cfg, args, env)
    IN  IF transport = CloudInitTransport
        THEN IF cloudInit.err # Nil THEN cloudInit
             ELSE [cloudInit EXCEPT !.custSpec = GetLinuxPrepCustSpec(v.Name, args)]
        ELSE IF transport = OvfEnvTransport
        THEN [configSpec |-> GetOvfEnvCustSpec(cfg, args),
              custSpec |-> GetLinuxPrepCustSpec(v.Name, args), err |-> Nil]
        ELSE IF transport = ExtraConfigTransport
        THEN [configSpec |-> GetExtraConfigCustSpec(cfg, args),
              custSpec |-> GetLinuxPrepCustSpec(v.Name, args), err |-> Nil]
        ELSE [configSpec |-> Nil,
              custSpec |-> GetLinuxPrepCustSpec(v.Name, args), err |-> Nil]

\* the switch on the transport in Session.customize
SelectTransport(v, cfg, args, env) ==
    LET transport == args.VMMetadata.Transport
    IN  IF transport = CloudInitTransport
        THEN customizeCloudInit(v, cfg, args, env)
        ELSE IF transport = OvfEnvTransport
        THEN [configSpec |-> GetOvfEnvCustSpec(cfg, args),
              custSpec |-> GetLinuxPrepCustSpec(v.Name, args), err |-> Nil]
        ELSE IF transport = ExtraConfigTransport
        THEN [configSpec |-> GetExtraConfigCustSpec(cfg, args),
              custSpec |-> GetLinuxPrepCustSpec(v.Name, args), err |-> Nil]
        ELSE [configSpec |-> Nil,
              custSpec |-> GetLinuxPrepCustSpec(v.Name, args), err |-> Nil]

----------------------------------------------------------------------------
\* the network status and the templating of the metadata

\* the number of one bits of a mask octet
RECURSIVE BitCount(_)
BitCount(n) == IF n = 0 THEN 0 ELSE (n % 2) + BitCount(n \div 2)

\* network.ToCidrNotation(ip, mask): ip/prefixlen, the prefix length being
\* the bit count of the subnet mask (four octets)
ToCidrNotation(ip, mask) ==
    ip \o <<"/", ToString(BitCount(mask[1]) + BitCount(mask[2])
                            + BitCount(mask[3]) + BitCount(mask[4]))>>

\* NicInfoToDevicesStatus with every entry put in front of the ones before it
NicInfoToDevicesStatusPrepending(args) ==
    [i \in 1..Len(args.NetIfList) |->
        LET ipConfig == args.NetIfList[Len(args.NetIfList) + 1 - i].IPConfiguration
        IN  [Gateway4 |-> ipConfig.Gateway,
             IPAddresses |-> <<ToCidrNotation(ipConfig.IP, ipConfig.SubnetMask)>>]]

\* one NetworkDeviceStatus appended per entry of updateArgs.NetIfList
NicInfoToDevicesStatus(args) ==
    [i \in 1..Len(args.NetIfList) |->
        LET ipConfig == args.NetIfList[i].IPConfiguration
        IN  [Gateway4 |-> ipConfig.Gateway,
             IPAddresses |-> <<ToCidrNotation(ipConfig.IP, ipConfig.SubnetMask)>>]]

\* the data the templates are executed on
TemplateData(v, args) ==
    [V1alpha1 |-> [Net |-> [Devices |-> NicInfoToDevicesStatus(args),
                            Nameservers |-> args.DNSServers],
                   VM |-> v]]

\* normalizeStr replacing only the escaped opening brace
normalizeStrOpenOnly(str) ==
    [i \in 1..Len(str) |->
        IF str[i] = EscapedOpenBrace THEN "{" ELSE str[i]]

\* strings.ReplaceAll of the two escape sequences
normalizeStr(str) ==
    [i \in 1..Len(str) |->
        IF str[i] = EscapedOpenBrace THEN "{"
        ELSE IF str[i] = EscapedCloseBrace THEN "}"
        ELSE str[i]]

\* template.New(name).Parse fails: an action is not closed
ParseFails(templateStr) ==
    \E i \in 1..Len(templateStr) : templateStr[i] = ActionUnclosed

\* templ.Execute fails: a field the data does not have, or an index out of
\* the range of the devices
ExecuteFails(templateData, templateStr) ==
    \E i \in 1..Len(templateStr) :
        \/ templateStr[i] = ActionNoSuchField
        \/ /\ templateStr[i] = ActionGateway4
           /\ Len(templateData.V1alpha1.Net.Devices) = 0

\* templ.Execute: the text as it is, every action replaced by its value
RECURSIVE Execute(_, _)
Execute(templateData, templateStr) ==
    IF templateStr = <<>> THEN <<>>
    ELSE (IF Head(templateStr) = ActionVMName
          THEN templateData.V1alpha1.VM.Name
          ELSE IF Head(templateStr) = ActionGateway4
          THEN templateData.V1alpha1.Net.Devices[1].Gateway4
          ELSE <<Head(templateStr)>>)
         \o Execute(templateData, Tail(templateStr))

\* renderTemplate returning the template string as it is when it fails
renderTemplateRawOnFailure(templateData, templateStr) ==
    IF ParseFails(templateStr) THEN templateStr
    ELSE IF ExecuteFails(templateData, templateStr) THEN templateStr
    ELSE normalizeStr(Execute(templateData, templateStr))

renderTemplate(templateData, templateStr) ==
    IF ParseFails(templateStr) THEN normalizeStr(templateStr)
    ELSE IF ExecuteFails(templateData, templateStr) THEN normalizeStr(templateStr)
    ELSE normalizeStr(Execute(templateData, templateStr))

\* every value of the metadata replaced by its rendering
TemplateVMMetadata(v, args) ==
    [args EXCEPT !.VMMetadata.Data =
        [key \in DOMAIN @ |-> renderTemplate(TemplateData(v, args), @[key])]]

----------------------------------------------------------------------------
\* Session.customize

\* NeedsReconfigure without the nil and zero-value checks
NeedsReconfigureAlways(configSpec) == TRUE

\* configSpec != nil && !apiEquality.Semantic.DeepEqual(configSpec, defaultConfigSpec)
NeedsReconfigure(configSpec) ==
    configSpec # Nil /\ ~IsZeroConfigSpec(configSpec[1])

\* the bypass annotation
IsBypassed(v) ==
    v.Annotations.Bypass = VSphereCustomizationBypassDisable

\* NeedsCustomize without the check of the pending marker
NeedsCustomizeIgnoringPending(v, cfg, custSpec) ==
    /\ custSpec # Nil
    /\ ~IsBypassed(v)

\* NeedsCustomize without the check of the bypass annotation
NeedsCustomizeIgnoringBypass(v, cfg, custSpec) ==
    /\ custSpec # Nil
    /\ ~IsCustomizationPendingExtraConfig(cfg.ExtraConfig)

\* custSpec != nil, no bypass annotation, no pending customization in the snapshot
NeedsCustomize(v, cfg, custSpec) ==
    /\ custSpec # Nil
    /\ ~IsBypassed(v)
    /\ ~IsCustomizationPendingExtraConfig(cfg.ExtraConfig)

\* CustomizeReturn without the exception for the CustomizationPending fault
CustomizeReturnAny(err) == err

\* what the pass returns after resVM.Customize returned err
CustomizeReturn(err) ==
    IF err # Nil /\ ~isCustomizationPendingError(err) THEN err ELSE Nil

\* a call repeated once when it fails
CallsMadeRetrying(err) == IF err # Nil THEN 2 ELSE 1

\* how often the pass makes a call that returns err: the call is in no loop
CallsMade(err) == 1

\* the pass after the selector, without the return on the selector's error
customizeSelectedIgnoringError(v, cfg, args, sel, env) ==
    LET base == [data |-> args.VMMetadata.Data, configSpec |-> sel.configSpec,
                 custSpec |-> sel.custSpec, selErr |-> sel.err,
                 reconfigured |-> FALSE, nReconfigure |-> 0, reconfErr |-> Nil,
                 customized |-> FALSE, nCustomize |-> 0, custErr |-> Nil, ret |-> Nil]
        afterReconf == IF NeedsReconfigure(sel.configSpec)
                       THEN [base EXCEPT !.reconfigured = TRUE,
                                         !.nReconfigure = CallsMade(env.reconfErr),
                                         !.reconfErr = env.reconfErr]
                       ELSE base
    IN  IF afterReconf.reconfErr # Nil
        THEN [afterReconf EXCEPT !.ret = afterReconf.reconfErr]
        ELSE IF NeedsCustomize(v, cfg, sel.custSpec)
        THEN [afterReconf EXCEPT !.customized = TRUE,
                                 !.nCustomize = CallsMade(env.custErr),
                                 !.custErr = env.custErr,
                                 !.ret = CustomizeReturn(env.custErr)]
        ELSE afterReconf

\* the pass after the selector, with Customize before Reconfigure
customizeSelectedCustomizingFirst(v, cfg, args, sel, env) ==
    LET base == [data |-> args.VMMetadata.Data, configSpec |-> sel.configSpec,
                 custSpec |-> sel.custSpec, selErr |-> sel.err,
                 reconfigured |-> FALSE, nReconfigure |-> 0, reconfErr |-> Nil,
                 customized |-> FALSE, nCustomize |-> 0, custErr |-> Nil, ret |-> Nil]
        afterCust == IF NeedsCustomize(v, cfg, sel.custSpec)
                     THEN [base EXCEPT !.customized = TRUE,
                                       !.nCustomize = CallsMade(env.custErr),
                                       !.custErr = env.custErr,
                                       !.ret = CustomizeReturn(env.custErr)]
                     ELSE base
    IN  IF sel.err # Nil THEN [base EXCEPT !.ret = sel.err]
        ELSE IF afterCust.ret # Nil THEN afterCust
        ELSE IF NeedsReconfigure(sel.configSpec)
        THEN [afterCust EXCEPT !.reconfigured = TRUE,
                               !.nReconfigure = CallsMade(env.reconfErr),
                               !.reconfErr = env.reconfErr,
                               !.ret = env.reconfErr]
        ELSE afterCust

\* the pass after the selector, with the bypass annotation and the pending
\* marker looked at before Reconfigure
customizeSelectedSkippingFirst(v, cfg, args, sel, env) ==
    LET base == [data |-> args.VMMetadata.Data, configSpec |-> sel.configSpec,
                 custSpec |-> sel.custSpec, selErr |-> sel.err,
                 reconfigured |-> FALSE, nReconfigure |-> 0, reconfErr |-> Nil,
                 customized |-> FALSE, nCustomize |-> 0, custErr |-> Nil, ret |-> Nil]
        afterReconf == IF NeedsReconfigure(sel.configSpec)
                       THEN [base EXCEPT !.reconfigured = TRUE,
                                         !.nReconfigure = CallsMade(env.reconfErr),
                                         !.reconfErr = env.reconfErr]
                       ELSE base
    IN  IF sel.err # Nil THEN [base EXCEPT !.ret = sel.err]
        ELSE IF sel.custSpec # Nil /\ ~NeedsCustomize(v, cfg, sel.custSpec) THEN base
        ELSE IF afterReconf.reconfErr # Nil
        THEN [afterReconf EXCEPT !.ret = afterReconf.reconfErr]
        ELSE IF NeedsCustomize(v, cfg, sel.custSpec)
        THEN [afterReconf EXCEPT !.customized = TRUE,
                                 !.nCustomize = CallsMade(env.custErr),
                                 !.custErr = env.custErr,
                                 !.ret = CustomizeReturn(env.custErr)]
        ELSE afterReconf

\* Session.customize from the selector's output sel on: the return on its
\* error, Reconfigure, Customize.  The result records the metadata the
\* selector was given, its output, the calls made, how often, what they
\* returned and the error the pass returns.
customizeSelected(v, cfg, args, sel, env) ==
    LET base == [data |-> args.VMMetadata.Data, configSpec |-> sel.configSpec,
                 custSpec |-> sel.custSpec, selErr |-> sel.err,
                 reconfigured |-> FALSE, nReconfigure |-> 0, reconfErr |-> Nil,
                 customized |-> FALSE, nCustomize |-> 0, custErr |-> Nil, ret |-> Nil]
        afterReconf == IF NeedsReconfigure(sel.configSpec)
                       THEN [base EXCEPT !.reconfigured = TRUE,
                                         !.nReconfigure = CallsMade(env.reconfErr),
                                         !.reconfErr = env.reconfErr]
                       ELSE base
    IN  IF sel.err # Nil THEN [base EXCEPT !.ret = sel.err]
        ELSE IF afterReconf.reconfErr # Nil
        THEN [afterReconf EXCEPT !.ret = afterReconf.reconfErr]
        ELSE IF NeedsCustomize(v, cfg, sel.custSpec)
        THEN [afterReconf EXCEPT !.customized = TRUE,
                                 !.nCustomize = CallsMade(env.custErr),
                                 !.custErr = env.custErr,
                                 !.ret = CustomizeReturn(env.custErr)]
        ELSE afterReconf

\* customize from the switch on the transport on
customizeTemplated(v, cfg, args, env) ==
    customizeSelected(v, cfg, args, SelectTransport(v, cfg, args, env), env)

\* One pass of customize over the snapshot cfg.  env carries the outcomes of
\* the calls made outside the session (see customizeCloudInit), and
\*   fss        what lib.IsVMServicePublicCloudBYOIFSSEnabled returns
\*   reconfErr  what resVM.Reconfigure returns if it is called
\*   custErr    what resVM.Customize returns if it is called
customize(v, cfg, args, env) ==
    customizeTemplated(v, cfg, IF env.fss THEN TemplateVMMetadata(v, args) ELSE args, env)

----------------------------------------------------------------------------
\* the hypervisor and the guest

\* The hypervisor applies a submitted configuration-spec to the VM (nothing
\* for a nil one).
HvReconfigure(cfg, configSpec) ==
    IF configSpec = Nil THEN cfg
    ELSE LET cs == configSpec[1]
         IN  [ExtraConfig |-> MergeExtraConfig(cfg.ExtraConfig, cs.ExtraConfig),
              VAppConfig |-> IF cs.VAppConfigRemoved = Some(TRUE) THEN Nil
                             ELSE IF cs.VAppConfig # Nil /\ cfg.VAppConfig # Nil THEN cs.VAppConfig
                             ELSE cfg.VAppConfig]

\* What resVM.Customize can return: the CustomizationPending fault while an
\* accepted customization is unacknowledged, else success or another failure.
HvCustomizeOutcomes(inFlight) ==
    IF inFlight > 0 THEN {TaskError(CustomizationPending)}
    ELSE {Nil, TaskError("InvalidState"), Error("connection")}

----------------------------------------------------------------------------
\* bounded inputs

\* how often the desired state changes
MaxChanges == 1

\* how many passes the control loop runs
MaxPasses == 3

VMName == <<"vm1">>

VMUID == <<"uid1">>

DNSServers == <<"8.8.8.8">>

Plain == <<"p">>

Transports == {CloudInitTransport, OvfEnvTransport, ExtraConfigTransport, ""}

CloudInitTypes == {CloudInitTypeValueCloudInitPrep, CloudInitTypeValueGuestInfo, <<>>, <<"other">>}

BypassValues == {VSphereCustomizationBypassDisable, <<>>}

GuestInfoKey == <<"guestinfo", "k">>

GuestInfoKey2 == <<"guestinfo", "n">>

GuestInfoKey3 == <<"guestinfo", "x">>

HostnameKey == <<"hostname">>

\* how many network interfaces a VM has
MaxNics == 2

\* the network interface of every VM but those of InitNics
Nic1 ==
    [IPConfiguration |-> [IP |-> <<"10.0.0.5">>, SubnetMask |-> <<255, 255, 255, 0>>,
                          Gateway |-> <<"10.0.0.1">>]]

Nics ==
    {Nic1,
     [IPConfiguration |-> [IP |-> <<"10.0.1.6">>, SubnetMask |-> <<255, 255, 0, 0>>,
                           Gateway |-> <<"10.0.1.1">>]],
     [IPConfiguration |-> [IP |-> <<"192.168.0.7">>, SubnetMask |-> <<255, 255, 254, 0>>,
                           Gateway |-> <<"192.168.0.1">>]],
     [IPConfiguration |-> [IP |-> <<"10.0.0.5">>, SubnetMask |-> <<255, 128, 0, 0>>,
                           Gateway |-> <<"10.0.1.1">>]]}

NetIfLists == UNION {[1..n -> Nics] : n \in 0..MaxNics}

\* the metadata a transport is given: userdata plain, encoded or damaged
\* under the primary key, or under the legacy key; a prefixed key with or
\* without one the transport ignores; values with escaped braces, with a
\* template that renders, with one that does not parse next to one that
\* does, with one that fails to execute; the pending-customization marker's
\* key; a vApp property
DataMaps(transport) ==
    IF transport = CloudInitTransport
    THEN {EmptyMap,
          [k \in {UserDataKey} |-> Plain],
          [k \in {UserDataKey} |-> <<"Z">> \o Plain],
          [k \in {UserDataKey} |-> <<"X">>],
          [k \in {ValueKey} |-> <<"v">>],
          [k \in {UserDataKey, ValueKey} |-> IF k = UserDataKey THEN Plain ELSE <<"v">>]}
    ELSE IF transport = ExtraConfigTransport
    THEN {EmptyMap,
          [k \in {GuestInfoKey} |-> <<"v">>],
          [k \in {GuestInfoKey, HostnameKey, GOSCPendingExtraConfigKey} |-> <<"v">>],
          [k \in {GuestInfoKey, GuestInfoKey2} |->
                IF k = GuestInfoKey
                THEN <<"hello", EscapedOpenBrace, "world", EscapedCloseBrace>>
                ELSE <<ActionVMName, ActionGateway4>>],
          [k \in {GuestInfoKey, GuestInfoKey2, GuestInfoKey3} |->
                IF k = GuestInfoKey THEN <<ActionUnclosed, EscapedCloseBrace>>
                ELSE IF k = GuestInfoKey2 THEN <<ActionVMName>>
                ELSE <<EscapedOpenBrace, ActionNoSuchField>>]}
    ELSE IF transport = OvfEnvTransport
    THEN {EmptyMap, [k \in {HostnameKey} |-> <<"v">>]}
    ELSE {EmptyMap}

VMs == [UID : {VMUID}, Name : {VMName},
        Annotations : [CloudInitType : CloudInitTypes, Bypass : BypassValues]]

UpdateArgs ==
    UNION {[VMMetadata : [Transport : {t}, Data : DataMaps(t)],
            NetIfList : {<<Nic1>>},
            DNSServers : {DNSServers}] : t \in Transports}

\* the desired states: the cloud-init type annotation is set only for the
\* CloudInit transport
Desired ==
    {d \in VMs \X UpdateArgs :
        d[2].VMMetadata.Transport # CloudInitTransport => d[1].Annotations.CloudInitType = <<>>}

\* the outcomes of the calls a pass makes outside the session
Envs == [fss : BOOLEAN,
         netErr : {Nil, Error("GetNetworkDevices")},
         ethCards : {<<"eth0">>},
         fail : {"none", "yaml", "metadata", "userdata"},
         reconfErr : {Nil, Error("reconfigure")},
         custErr : HvCustomizeOutcomes(1) \cup HvCustomizeOutcomes(0)]

NoOutcome ==
    [data |-> EmptyMap, configSpec |-> Nil, custSpec |-> Nil, selErr |-> Nil,
     reconfigured |-> FALSE, nReconfigure |-> 0, reconfErr |-> Nil,
     customized |-> FALSE, nCustomize |-> 0, custErr |-> Nil, ret |-> Nil]

\* the record of the last pass: its number, its inputs, the customizations in
\* flight at the hypervisor when it ran, the network status its templating
\* computed, and its outcome
NoPass ==
    [n |-> 0, vm |-> Nil, updateArgs |-> Nil, config |-> Nil,
     hvInFlight |-> 0, devices |-> Nil, out |-> NoOutcome]

----------------------------------------------------------------------------
\* the state machine

Init ==
    /\ \E d \in Desired : vm = d[1] /\ updateArgs = d[2]
    /\ config \in [ExtraConfig : {EmptyMap}, 
                   VAppConfig : {Nil, Some([k \in {HostnameKey} |-> <<"old">>])}]
    /\ hvInFlight = 0
    /\ pass = NoPass
    /\ changes = 0
    /\ fssEnabled \in BOOLEAN

\* A pass with outcome out under env: the hypervisor applies what the pass
\* submitted, and the pass is recorded.
Reconciled(env, out) ==
    /\ env.fss = fssEnabled
    \* a call that is not made has no outcome
    /\ updateArgs.VMMetadata.Transport # CloudInitTransport
            => env.netErr = Nil /\ env.fail = "none"
    /\ env.netErr # Nil => env.fail = "none"
    /\ IF out.reconfigured THEN TRUE ELSE env.reconfErr = Nil
    /\ IF out.customized THEN env.custErr \in HvCustomizeOutcomes(hvInFlight)
                         ELSE env.custErr = Nil
    /\ pass' = [n |-> pass.n + 1, vm |-> Some(vm), updateArgs |-> Some(updateArgs),
                config |-> Some(config), hvInFlight |-> hvInFlight,
                devices |-> IF env.fss THEN Some(NicInfoToDevicesStatus(updateArgs)) ELSE Nil,
                out |-> out]
    /\ config' = IF out.reconfigured /\ out.reconfErr = Nil
                 THEN HvReconfigure(config, out.configSpec)
                 ELSE config
    /\ hvInFlight' = IF out.customized /\ out.custErr = Nil
                     THEN hvInFlight + 1 ELSE hvInFlight
    /\ UNCHANGED <<vm, updateArgs, changes, fssEnabled>>

\* The control loop runs one pass of customize on a fresh snapshot of the
\* live configuration.
Reconcile ==
    /\ pass.n < MaxPasses
    /\ \E env \in Envs : Reconciled(env, customize(vm, config, updateArgs, env))

\* The hypervisor publishes the pending-customization marker of an accepted
\* customization in the VM's extra-configuration.
HvSetMarker ==
    /\ hvInFlight > 0
    /\ ~IsCustomizationPendingExtraConfig(config.ExtraConfig)
    /\ config' = [config EXCEPT !.ExtraConfig =
                    MergeExtraConfig(@, [k \in {GOSCPendingExtraConfigKey} |-> <<"pkg">>])]
    /\ UNCHANGED <<vm, updateArgs, hvInFlight, pass, changes, fssEnabled>>

\* The guest acknowledges the customization: the marker is emptied.
GuestAck ==
    /\ hvInFlight > 0
    /\ IsCustomizationPendingExtraConfig(config.ExtraConfig)
    /\ config' = [config EXCEPT !.ExtraConfig =
                    MergeExtraConfig(@, [k \in {GOSCPendingExtraConfigKey} |-> <<>>])]
    /\ hvInFlight' = 0
    /\ UNCHANGED <<vm, updateArgs, pass, changes, fssEnabled>>

\* The caller assembles the next pass's VMUpdateArgs from changed metadata.
ChangeDesired ==
    /\ changes < MaxChanges
    /\ \E d \in Desired :
        /\ d[1] = vm
        /\ d[2].VMMetadata.Transport = updateArgs.VMMetadata.Transport
        /\ d[2] # updateArgs
        /\ updateArgs' = d[2]
    /\ changes' = changes + 1
    /\ UNCHANGED <<vm, config, hvInFlight, pass, fssEnabled>>

Next == Reconcile \/ HvSetMarker \/ GuestAck \/ ChangeDesired

Spec == Init /\ [][Next]_vars

\* the passes of a VM whose metadata transport is CloudInit
InitCloudInit == Init /\ updateArgs.VMMetadata.Transport = CloudInitTransport

SpecCloudInit == InitCloudInit /\ [][Next]_vars

\* the passes, with templating enabled, of a VM with any list of network
\* interfaces whose metadata renders the gateway of the first one
InitNics ==
    /\ vm \in VMs
    /\ vm.Annotations.CloudInitType = <<>>
    /\ \E l \in NetIfLists :
        updateArgs = [VMMetadata |-> [Transport |-> ExtraConfigTransport,
                                      Data |-> [k \in {GuestInfoKey} |-> <<ActionGateway4>>]],
                      NetIfList |-> l,
                      DNSServers |-> DNSServers]
    /\ config = [ExtraConfig |-> EmptyMap, VAppConfig |-> Nil]
    /\ hvInFlight = 0
    /\ pass = NoPass
    /\ changes = 0
    /\ fssEnabled = TRUE

SpecNics == InitNics /\ [][Next]_vars

----------------------------------------------------------------------------
\* properties of a pass, read off the record of the last pass

PassRan == pass.n > 0

\* the value of the pending-customization marker in the pass's snapshot
PassMarker == Lookup(pass.config[1].ExtraConfig, GOSCPendingExtraConfigKey)

PassTransport == pass.updateArgs[1].VMMetadata.Transport

PassBypass == pass.vm[1].Annotations.Bypass = <<"disable">>

\* the pass failed before the customization step
FailedBeforeCustomize == pass.out.selErr # Nil \/ pass.out.reconfErr # Nil

\* C1 as stated: in a pass whose snapshot carries a non-empty pending marker,
\* Customize is not invoked and the pass returns success.
C1_Original ==
    (PassRan /\ PassMarker # <<>>) =>
        (~pass.out.customized /\ pass.out.ret = Nil)

\* C1 as amended: in a pass whose snapshot carries a non-empty pending marker,
\* for every transport, Customize is not invoked, and the pass returns success
\* unless the transport selector or the Reconfigure call failed, whose error
\* it returns.
C1_PendingMarkerSkipsCustomize ==
    (PassRan /\ PassMarker # <<>>) =>
        /\ ~pass.out.customized
        /\ pass.out.custErr = Nil
        /\ pass.out.ret = (IF pass.out.selErr # Nil THEN pass.out.selErr ELSE pass.out.reconfErr)
        /\ (~FailedBeforeCustomize => pass.out.ret = Nil)

\* a pass that had a custSpec to submit, no bypass annotation, and skipped it
\* because of the marker
C1_Witness ==
    /\ PassRan
    /\ PassMarker # <<>>
    /\ pass.out.custSpec # Nil
    /\ ~PassBypass
    /\ ~pass.out.customized
    /\ pass.out.ret = Nil

\* C2 as stated: in a pass over a VM with the bypass annotation set to
\* disable, Customize is not invoked and the pass returns success.
C2_Original ==
    (PassRan /\ PassBypass) =>
        (~pass.out.customized /\ pass.out.ret = Nil)

\* C2 as amended: in a pass over a VM with the bypass annotation set to
\* disable, Customize is not invoked even when the selector produced a
\* custSpec, and the pass returns success unless the Reconfigure call (or the
\* selector) failed, whose error it returns.
C2_BypassSkipsCustomize ==
    (PassRan /\ PassBypass) =>
        /\ ~pass.out.customized
        /\ pass.out.custErr = Nil
        /\ (pass.out.custSpec # Nil /\ pass.out.reconfErr = Nil => pass.out.ret = Nil)
        /\ (pass.out.reconfErr # Nil => pass.out.ret = pass.out.reconfErr)
        /\ (pass.out.selErr # Nil => pass.out.ret = pass.out.selErr)

\* a bypassed pass that had a custSpec and no pending marker in its snapshot
C2_Witness ==
    /\ PassRan
    /\ PassBypass
    /\ pass.out.custSpec # Nil
    /\ PassMarker = <<>>
    /\ ~pass.out.customized
    /\ pass.out.ret = Nil

\* the step is a pass of customize
IsPassStep == pass'.n = pass.n + 1

\* the step is a pass that follows an earlier pass with the same VM object and
\* the same VMUpdateArgs
IsRepeatedPassStep ==
    /\ PassRan
    /\ IsPassStep
    /\ pass'.vm = pass.vm
    /\ pass'.updateArgs = pass.updateArgs

C4_Original ==
    [][IsRepeatedPassStep =>
        /\ ~(/\ pass.out.reconfigured
             /\ pass.out.reconfErr = Nil
             /\ pass'.out.reconfigured
             /\ pass'.out.configSpec = pass.out.configSpec)
        /\ ~(/\ pass.out.customized
             /\ pass.out.custErr = Nil
             /\ pass'.hvInFlight = 0
             /\ pass'.out.customized
             /\ pass'.out.custSpec = pass.out.custSpec)]_vars

\* C5 as stated: for every transport but CloudInit with cloud-init-prep, two
\* consecutive passes over the same snapshot with the same VMUpdateArgs, whose
\* selector succeeds and the first of which did not fail to reconfigure, yield
\* equal configuration-specs and the second does not invoke Reconfigure.
C5_Original ==
    [][(/\ IsRepeatedPassStep
        /\ pass'.config = pass.config
        /\ pass.out.selErr = Nil
        /\ pass'.out.selErr = Nil
        /\ pass.out.reconfErr = Nil
        /\ ~(/\ pass.updateArgs[1].VMMetadata.Transport = "CloudInit"
             /\ pass.vm[1].Annotations.CloudInitType = <<"cloud-init-prep">>))
       => (/\ pass'.out.configSpec = pass.out.configSpec
           /\ ~pass'.out.reconfigured)]_vars

PassConfigSpecNil == pass.out.configSpec = Nil

PassCustSpecNil == pass.out.custSpec = Nil

\* C6 as stated: the selector never yields both a configSpec and a custSpec.
C6_Original ==
    PassRan => (PassConfigSpecNil \/ PassCustSpecNil)

\* C6 as amended: for the CloudInit transport the selector yields at most one
\* of configSpec and custSpec; for every other transport it yields the custSpec,
\* and with it a configSpec exactly when the transport is OvfEnv and the live
\* VM has a vApp configuration, or the transport is ExtraConfig and the
\* metadata has a key with the guest-info prefix.
C6_SelectorOutputs ==
    PassRan =>
        LET data == pass.updateArgs[1].VMMetadata.Data
        IN  /\ PassTransport = "CloudInit" => (PassConfigSpecNil \/ PassCustSpecNil)
            /\ PassTransport # "CloudInit" => ~PassCustSpecNil
            /\ PassTransport = "OvfEnv" =>
                    (~PassConfigSpecNil <=> pass.config[1].VAppConfig # Nil)
            /\ PassTransport = "ExtraConfig" =>
                    (~PassConfigSpecNil <=>
                        \E k \in DOMAIN data : Len(k) >= 2 /\ k[1] = "guestinfo")
            /\ PassTransport \notin {"CloudInit", "OvfEnv", "ExtraConfig"} => PassConfigSpecNil

\* the CloudInit selector produced a configSpec and no custSpec
C6_Witness ==
    /\ PassRan
    /\ PassTransport = "CloudInit"
    /\ ~PassConfigSpecNil
    /\ PassCustSpecNil

IsPendingFault(err) == err = <<[type |-> "task", what |-> "CustomizationPending"]>>

\* C8: a pass returns an error exactly when the selector failed, Reconfigure
\* failed, or Customize failed with anything but the CustomizationPending
\* fault; that fault is swallowed, every other Customize failure is returned
\* as it is.
C8_ErrorIffFatal ==
    PassRan =>
        /\ pass.out.ret # Nil <=>
                \/ pass.out.selErr # Nil
                \/ pass.out.reconfErr # Nil
                \/ (pass.out.custErr # Nil /\ ~IsPendingFault(pass.out.custErr))
        /\ IsPendingFault(pass.out.custErr) => pass.out.ret = Nil
        /\ (pass.out.custErr # Nil /\ ~IsPendingFault(pass.out.custErr)) =>
                pass.out.ret = pass.out.custErr

\* Customize failed with the CustomizationPending fault and the pass succeeded
C8_Witness ==
    /\ PassRan
    /\ pass.out.customized
    /\ IsPendingFault(pass.out.custErr)
    /\ pass.out.ret = Nil

\* C9: a pass whose selector fails gets no configSpec and no custSpec, returns
\* the selector's error, invokes neither Reconfigure nor Customize, and leaves
\* the VM at the hypervisor as it was.
C9_SelectorFailureAborts ==
    [][(IsPassStep /\ pass'.out.selErr # Nil) =>
        /\ pass'.out.configSpec = Nil
        /\ pass'.out.custSpec = Nil
        /\ pass'.out.ret = pass'.out.selErr
        /\ ~pass'.out.reconfigured
        /\ ~pass'.out.customized
        /\ config' = config
        /\ hvInFlight' = hvInFlight]_vars

\* the selector of a pass failed
C9_Witness ==
    /\ PassRan
    /\ pass.out.selErr # Nil
    /\ pass.out.ret # Nil

\* the pass is for CloudInit with a cloud-init type other than cloud-init-prep
PassGuestInfo ==
    /\ PassRan
    /\ PassTransport = "CloudInit"
    /\ pass.vm[1].Annotations.CloudInitType # <<"cloud-init-prep">>

\* the userdata the pass finds: 'user-data', else the legacy 'value'
PassUserdata ==
    LET data == pass.updateArgs[1].VMMetadata.Data
    IN  IF Lookup(data, <<"user-data">>) # <<>> THEN Lookup(data, <<"user-data">>)
        ELSE Lookup(data, <<"value">>)

\* the encoded cloud-init metadata of the pass
PassEncodedMetadata ==
    <<"Z", "id">> \o pass.vm[1].UID \o <<"host">> \o pass.vm[1].Name
        \o <<"net", "eth0", "dns">> \o pass.updateArgs[1].DNSServers \o <<"keys">>

\* the updates a guest-info pass merges into the live extra-configuration
PassExpectedUpdates ==
    LET ud == PassUserdata
        plain == IF ud # <<>> /\ Head(ud) = "Z" THEN Tail(ud) ELSE ud
        keys == {<<"guestinfo", "metadata">>, <<"guestinfo", "metadata", "encoding">>}
                    \cup (IF ud # <<>>
                          THEN {<<"guestinfo", "userdata">>, <<"guestinfo", "userdata", "encoding">>}
                          ELSE {})
    IN  [k \in keys |->
            IF k = <<"guestinfo", "metadata">> THEN PassEncodedMetadata
            ELSE IF k = <<"guestinfo", "userdata">> THEN <<"Z">> \o plain
            ELSE <<"gzip+base64">>]

\* C10 as stated: a guest-info pass gets no custSpec and a configSpec whose
\* extra-config has the encoded metadata and its encoding marker, whose
\* VAppConfigRemoved is true, and which has the userdata key and its encoding
\* marker exactly when a non-empty userdata was found; Customize is not invoked.
C10_Original ==
    PassGuestInfo =>
        /\ PassCustSpecNil
        /\ ~pass.out.customized
        /\ ~PassConfigSpecNil
        /\ LET cs == pass.out.configSpec[1]
           IN  /\ Lookup(cs.ExtraConfig, <<"guestinfo", "metadata">>) = PassEncodedMetadata
               /\ Lookup(cs.ExtraConfig, <<"guestinfo", "metadata", "encoding">>) = <<"gzip+base64">>
               /\ cs.VAppConfigRemoved = <<TRUE>>
               /\ ({<<"guestinfo", "userdata">>, <<"guestinfo", "userdata", "encoding">>}
                        \subseteq DOMAIN cs.ExtraConfig) <=> (PassUserdata # <<>>)

\* C10 as amended: a guest-info pass gets no custSpec and does not invoke
\* Customize; when its selector fails it gets no configSpec either; when it
\* succeeds, the configSpec has VAppConfigRemoved true and its extra-config is
\* the merge of the live extra-config with updates that carry the encoded
\* metadata and its encoding marker, and the encoded userdata and its
\* encoding marker exactly when a non-empty userdata was found (a userdata key
\* already in the live extra-config stays in the merge).
C10_GuestInfoSpec ==
    PassGuestInfo =>
        /\ PassCustSpecNil
        /\ ~pass.out.customized
        /\ pass.out.selErr # Nil => PassConfigSpecNil
        /\ pass.out.selErr = Nil =>
            /\ ~PassConfigSpecNil
            /\ LET cs == pass.out.configSpec[1]
                   live == pass.config[1].ExtraConfig
               IN  /\ cs.VAppConfigRemoved = <<TRUE>>
                   /\ cs.VAppConfig = Nil
                   /\ cs.ExtraConfig = MergeExtraConfig(live, PassExpectedUpdates)
                   /\ Lookup(cs.ExtraConfig, <<"guestinfo", "metadata">>) = PassEncodedMetadata
                   /\ Lookup(cs.ExtraConfig, <<"guestinfo", "metadata", "encoding">>) = <<"gzip+base64">>
                   /\ PassUserdata # <<>> =>
                        {<<"guestinfo", "userdata">>, <<"guestinfo", "userdata", "encoding">>}
                            \subseteq DOMAIN cs.ExtraConfig
                   /\ (PassUserdata = <<>> /\ <<"guestinfo", "userdata">> \notin DOMAIN live) =>
                        <<"guestinfo", "userdata">> \notin DOMAIN cs.ExtraConfig

\* a guest-info pass with the cloud-init type unset and no userdata produced
\* a configSpec without the userdata key
C10_Witness ==
    /\ PassGuestInfo
    /\ pass.vm[1].Annotations.CloudInitType = <<>>
    /\ PassUserdata = <<>>
    /\ ~PassConfigSpecNil
    /\ <<"guestinfo", "userdata">> \notin DOMAIN pass.out.configSpec[1].ExtraConfig
    /\ pass.out.configSpec[1].VAppConfigRemoved = <<TRUE>>

----------------------------------------------------------------------------
\* templating

\* the metadata the pass was given
PassGivenData == pass.updateArgs[1].VMMetadata.Data

\* the metadata the pass stored and ran the transport selector on
PassStoredData == pass.out.data

\* the value has an escaped brace
HasEscape(str) == \E i \in 1..Len(str) : str[i] \in {"\\{", "\\}"}

\* the value has a template action
HasAction(str) ==
    \E i \in 1..Len(str) :
        str[i] \in {"{{.V1alpha1.VM.Name}}", "{{(index .V1alpha1.Net.Devices 0).Gateway4}}",
                    "{{.V1alpha1.Nope}}", "{{"}

\* the value with its escape sequences replaced by the braces
RECURSIVE Unescaped(_)
Unescaped(str) ==
    IF str = <<>> THEN <<>>
    ELSE <<IF Head(str) = "\\{" THEN "{" ELSE IF Head(str) = "\\}" THEN "}" ELSE Head(str)>>
            \o Unescaped(Tail(str))

\* the ExtraConfig selector copied the stored values of the prefixed keys
SelectorUsedStoredData ==
    (PassTransport = "ExtraConfig" /\ ~PassConfigSpecNil) =>
        \A k \in DOMAIN PassStoredData :
            (Len(k) >= 2 /\ k[1] = "guestinfo") =>
                Lookup(pass.out.configSpec[1].ExtraConfig, k) = PassStoredData[k]

TemplateFails(str) ==
    \E i \in 1..Len(str) : str[i] \in {"{{", "{{.V1alpha1.Nope}}"}

\* the value with every action replaced by what it names in the pass's VM
\* and network interfaces
RECURSIVE Rendered(_)
Rendered(str) ==
    IF str = <<>> THEN <<>>
    ELSE (IF Head(str) = "{{.V1alpha1.VM.Name}}" THEN pass.vm[1].Name
          ELSE IF Head(str) = "{{(index .V1alpha1.Net.Devices 0).Gateway4}}"
          THEN pass.updateArgs[1].NetIfList[1].IPConfiguration.Gateway
          ELSE <<Head(str)>>) \o Rendered(Tail(str))

\* a value of the pass's metadata has a template that fails
PassTemplateFailed ==
    /\ PassRan
    /\ fssEnabled
    /\ \E k \in DOMAIN PassGivenData : TemplateFails(PassGivenData[k])

\* C12: with templating enabled, a value whose template fails to parse or to
\* execute is stored as the given value with its escape sequences replaced,
\* every other value is stored rendered, as if no value had failed, and the
\* pass goes on to the transport selector, which gets the stored values: the
\* pass returns no error but that of the selector, Reconfigure or Customize.
C12_TemplateFailSoft ==
    (PassRan /\ fssEnabled) =>
        /\ \A k \in DOMAIN PassGivenData :
                PassStoredData[k] = (IF TemplateFails(PassGivenData[k])
                                     THEN Unescaped(PassGivenData[k])
                                     ELSE Unescaped(Rendered(PassGivenData[k])))
        /\ PassTemplateFailed =>
                /\ pass.out.selErr = Nil
                /\ ~PassCustSpecNil
                /\ ~PassConfigSpecNil
                /\ SelectorUsedStoredData
                /\ pass.out.reconfigured
                /\ pass.out.ret # Nil =>
                        \/ pass.out.ret = pass.out.reconfErr
                        \/ pass.out.ret = pass.out.custErr

\* a pass stored the unparsable value and the one that fails to execute with
\* their escape sequences replaced, rendered the third, and went on to
\* reconfigure and customize with success
C12_Witness ==
    /\ PassTemplateFailed
    /\ PassGivenData[<<"guestinfo", "k">>] = <<"{{", "\\}">>
    /\ PassStoredData[<<"guestinfo", "k">>] = <<"{{", "}">>
    /\ PassStoredData[<<"guestinfo", "n">>] = <<"vm1">>
    /\ PassStoredData[<<"guestinfo", "x">>] = <<"{", "{{.V1alpha1.Nope}}">>
    /\ pass.out.reconfigured
    /\ pass.out.customized
    /\ pass.out.ret = Nil

----------------------------------------------------------------------------
\* the pending-customization marker and the order of the calls

\* the marker in an extra-configuration: whether its key is there, and its value
MarkerIn(extraConfig) ==
    [present |-> <<"tools", "deployPkg", "fileName">> \in DOMAIN extraConfig,
     value |-> Lookup(extraConfig, <<"tools", "deployPkg", "fileName">>)]

PassConfigSpecNonZero ==
    /\ ~PassConfigSpecNil
    /\ pass.out.configSpec[1] # ZeroConfigSpec

\* C14: within a pass Reconfigure, when needed, comes before Customize:
\* Customize is invoked only when the reconfiguration needed was made and
\* succeeded, and a pass whose Reconfigure fails returns that error and does
\* not invoke Customize.
C14_ReconfigureBeforeCustomize ==
    PassRan =>
        /\ (pass.out.customized /\ PassConfigSpecNonZero) =>
                (pass.out.reconfigured /\ pass.out.reconfErr = Nil)
        /\ pass.out.reconfErr # Nil =>
                /\ pass.out.reconfigured
                /\ pass.out.ret = pass.out.reconfErr
                /\ ~pass.out.customized
                /\ pass.out.nCustomize = 0
                /\ pass.out.custErr = Nil

\* Reconfigure failed in a pass that had a custSpec to submit, no bypass
\* annotation and no pending marker: Customize was not invoked
C14_Witness ==
    /\ PassRan
    /\ pass.out.reconfErr # Nil
    /\ ~PassCustSpecNil
    /\ ~PassBypass
    /\ PassMarker = <<>>
    /\ ~pass.out.customized
    /\ pass.out.ret = pass.out.reconfErr

C16_Original ==
    [][(IsPassStep /\ MarkerIn(config.ExtraConfig).value # <<>> /\ pass'.out.custSpec # Nil) =>
        /\ ~pass'.out.customized
        /\ pass'.out.ret = Nil]_vars

\* C16 as amended: while the marker of the live extra-configuration is not
\* empty, a pass whose selector yields a custSpec does not invoke Customize,
\* leaves the marker and the customization in flight as they are, so that the
\* next pass is blocked too, and returns success unless its Reconfigure
\* failed, whose error it returns.
C16_StaleMarkerBlocks ==
    [][(IsPassStep /\ MarkerIn(config.ExtraConfig).value # <<>> /\ pass'.out.custSpec # Nil) =>
        /\ ~pass'.out.customized
        /\ pass'.out.nCustomize = 0
        /\ pass'.out.ret = pass'.out.reconfErr
        /\ MarkerIn(config'.ExtraConfig).value # <<>>
        /\ hvInFlight' = hvInFlight]_vars

\* the last of the passes the model runs has, like the one before it, found
\* the marker that no guest emptied and skipped its custSpec
C16_Witness ==
    /\ pass.n = MaxPasses
    /\ PassMarker # <<>>
    /\ MarkerIn(config.ExtraConfig).value # <<>>
    /\ ~PassCustSpecNil
    /\ ~PassBypass
    /\ ~pass.out.customized
    /\ pass.out.ret = Nil
    /\ hvInFlight = 1

----------------------------------------------------------------------------
\* the ExtraConfig and the CloudInit guest-info configSpecs

\* the keys of the stored metadata that have the guest-info prefix
PassPrefixedKeys ==
    {k \in DOMAIN PassStoredData : Len(k) >= 2 /\ k[1] = "guestinfo"}

\* the pass's custSpec is the Linux-prep identity spec
PassCustSpecLinuxPrep ==
    /\ ~PassCustSpecNil
    /\ pass.out.custSpec[1].Identity = "LinuxPrep"
    /\ pass.out.custSpec[1].HostName = pass.vm[1].Name

\* C17 as stated: for the ExtraConfig transport the configSpec's extra-config
\* has exactly the metadata's keys with the guest-info prefix, each with its
\* metadata value; without such a key the configSpec is nil and Reconfigure
\* is not invoked; the Linux-prep custSpec is produced in either case.
C17_Original ==
    (PassRan /\ PassTransport = "ExtraConfig") =>
        /\ PassCustSpecLinuxPrep
        /\ IF PassPrefixedKeys = {}
           THEN PassConfigSpecNil /\ ~pass.out.reconfigured
           ELSE /\ ~PassConfigSpecNil
                /\ DOMAIN pass.out.configSpec[1].ExtraConfig = PassPrefixedKeys
                /\ \A k \in PassPrefixedKeys :
                        pass.out.configSpec[1].ExtraConfig[k] = PassStoredData[k]

\* C17 as amended: for the ExtraConfig transport the configSpec's
\* extra-config is the live extra-config merged with exactly the metadata's
\* keys with the guest-info prefix, each with its metadata value: a key of
\* the metadata without the prefix is not copied, and every other key of the
\* configSpec is one of the live extra-config, with its live value; without a
\* prefixed key the configSpec is nil and Reconfigure is not invoked; the
\* Linux-prep custSpec is produced in either case.
C17_ExtraConfigSpec ==
    (PassRan /\ PassTransport = "ExtraConfig") =>
        /\ PassCustSpecLinuxPrep
        /\ pass.out.selErr = Nil
        /\ IF PassPrefixedKeys = {}
           THEN PassConfigSpecNil /\ ~pass.out.reconfigured
           ELSE /\ ~PassConfigSpecNil
                /\ pass.out.reconfigured
                /\ LET cs == pass.out.configSpec[1]
                       live == pass.config[1].ExtraConfig
                   IN  /\ cs.VAppConfigRemoved = Nil
                       /\ cs.VAppConfig = Nil
                       /\ DOMAIN cs.ExtraConfig = PassPrefixedKeys \cup DOMAIN live
                       /\ \A k \in DOMAIN cs.ExtraConfig :
                            cs.ExtraConfig[k] = (IF k \in PassPrefixedKeys
                                                 THEN PassStoredData[k] ELSE live[k])

\* an ExtraConfig pass whose metadata has a prefixed key and keys without the
\* prefix submitted the prefixed key and left out the others
C17_Witness ==
    /\ PassRan
    /\ PassTransport = "ExtraConfig"
    /\ DOMAIN PassStoredData = {<<"guestinfo", "k">>, <<"hostname">>,
                                <<"tools", "deployPkg", "fileName">>}
    /\ pass.config[1].ExtraConfig = EmptyMap
    /\ pass.out.reconfigured
    /\ DOMAIN pass.out.configSpec[1].ExtraConfig = {<<"guestinfo", "k">>}
    /\ pass.out.configSpec[1].ExtraConfig[<<"guestinfo", "k">>] = <<"v">>
    /\ PassCustSpecLinuxPrep

\* the plain text of a userdata: what its envelope holds, or the userdata
\* itself when it is in no envelope
PlainOf(ud) == IF ud # <<>> /\ Head(ud) = "Z" THEN Tail(ud) ELSE ud

\* the pass is a guest-info pass whose selector succeeded and found userdata
PassStoresUserdata ==
    /\ PassGuestInfo
    /\ pass.out.selErr = Nil
    /\ PassUserdata # <<>>

\* the userdata in the pass's configSpec
PassStoredUserdata ==
    Lookup(pass.out.configSpec[1].ExtraConfig, <<"guestinfo", "userdata">>)

\* C18: the userdata a guest-info pass stores in its configSpec is the
\* encoding of the plain text of the userdata found under 'user-data', or
\* under 'value' when 'user-data' is empty, with the encoding marker
\* 'gzip+base64'; so two passes in a row whose userdata has the same plain
\* text, supplied plain or encoded, store the same value.
C18_UserdataCanonical ==
    [][(IsPassStep /\ PassStoresUserdata') =>
        /\ ~PassConfigSpecNil'
        /\ PassStoredUserdata' = <<"Z">> \o PlainOf(PassUserdata')
        /\ Lookup(pass'.out.configSpec[1].ExtraConfig, <<"guestinfo", "userdata", "encoding">>)
                = <<"gzip+base64">>
        /\ (PassStoresUserdata /\ PlainOf(PassUserdata) = PlainOf(PassUserdata')) =>
                PassStoredUserdata' = PassStoredUserdata]_vars

\* after a change of the metadata a pass was given the userdata encoded and
\* stored it as it was given
C18_Witness ==
    /\ PassStoresUserdata
    /\ pass.n >= 2
    /\ changes = 1
    /\ PassUserdata = <<"Z", "p">>
    /\ PassStoredUserdata = <<"Z", "p">>

----------------------------------------------------------------------------
\* the network status

\* the prefix length of a subnet mask, as text
PrefixLenOf(mask) ==
    CASE mask = <<255, 255, 255, 0>> -> "24"
      [] mask = <<255, 255, 254, 0>> -> "23"
      [] mask = <<255, 255, 0, 0>> -> "16"
      [] mask = <<255, 128, 0, 0>> -> "9"

\* C19: the status NicInfoToDevicesStatus returns has one entry per network
\* interface of the VMUpdateArgs, in the order of the list: entry i has the
\* gateway of interface i as Gateway4 and one IP address, the IP of
\* interface i, a slash and the bit count of its subnet mask.
C19_DevicesStatusInOrder ==
    (PassRan /\ pass.devices # Nil) =>
        LET status == pass.devices[1]
            netIfList == pass.updateArgs[1].NetIfList
        IN  /\ Len(status) = Len(netIfList)
            /\ \A i \in 1..Len(netIfList) :
                    /\ status[i].Gateway4 = netIfList[i].IPConfiguration.Gateway
                    /\ status[i].IPAddresses =
                            <<netIfList[i].IPConfiguration.IP
                                \o <<"/", PrefixLenOf(netIfList[i].IPConfiguration.SubnetMask)>> >>

\* the status of two interfaces with different gateways, addresses and masks
C19_Witness ==
    /\ PassRan
    /\ pass.devices # Nil
    /\ Len(pass.updateArgs[1].NetIfList) = 2
    /\ pass.updateArgs[1].NetIfList[1].IPConfiguration.IP = <<"10.0.1.6">>
    /\ pass.updateArgs[1].NetIfList[2].IPConfiguration.IP = <<"10.0.0.5">>
    /\ pass.devices[1][1] = [Gateway4 |-> <<"10.0.1.1">>,
                              IPAddresses |-> << <<"10.0.1.6", "/", "16">> >>]
    /\ pass.devices[1][2] = [Gateway4 |-> <<"10.0.0.1">>,
                              IPAddresses |-> << <<"10.0.0.5", "/", "24">> >>]

----------------------------------------------------------------------------
\* the skips of the customization

\* the pass skips Customize: the bypass annotation is set or its snapshot has
\* the pending marker
PassSkipsCustomize == PassBypass \/ PassMarker # <<>>

\* C20: the bypass annotation and the pending marker skip only Customize: a
\* pass whose selector yields a custSpec and a configSpec that is not the
\* zero value (OvfEnv or ExtraConfig transport) invokes Reconfigure with it
\* although the annotation is set or the marker is not empty, does not invoke
\* Customize, and returns what Reconfigure returned.
C20_SkipsAffectOnlyCustomize ==
    (PassRan /\ pass.out.selErr = Nil /\ PassConfigSpecNonZero /\ ~PassCustSpecNil
            /\ PassSkipsCustomize) =>
        /\ PassTransport \in {"OvfEnv", "ExtraConfig"}
        /\ pass.out.reconfigured
        /\ pass.out.nReconfigure = 1
        /\ ~pass.out.customized
        /\ pass.out.ret = pass.out.reconfErr

\* an ExtraConfig pass that found the pending marker reconfigured the VM and
\* skipped the customization
C20_Witness ==
    /\ PassRan
    /\ PassTransport = "ExtraConfig"
    /\ PassMarker # <<>>
    /\ ~PassBypass
    /\ PassConfigSpecNonZero
    /\ ~PassCustSpecNil
    /\ pass.out.reconfigured
    /\ pass.out.reconfErr = Nil
    /\ ~pass.out.customized

====
